---- MODULE Spec2Model ----
(***************************************************************************)
(* A model of coredhcp's configuration loader (config/config.go).          *)
(*                                                                         *)
(* Go strings are sequences of characters, each a one-character string; a  *)
(* character that a TLA+ string cannot hold is written by its code point,  *)
(* as in "U+000B".  A nil pointer, a                                       *)
(* nil error and a nil net.IP are the empty sequence <<>>; a non-nil       *)
(* pointer or error is the one-element sequence <<value>>.  A Go slice is  *)
(* a record [isNil, elems], since cast.ToSlice and the code tell a nil     *)
(* slice from an empty one.  Go's 0-based half-open s[lo:hi] is Slice.     *)
(***************************************************************************)
EXTENDS Integers, Sequences, FiniteSets

VARIABLES doc, readErr, pc, c, ret, calls, fn, arg, out

vars == <<doc, readErr, pc, c, ret, calls, fn, arg, out>>

-----------------------------------------------------------------------------
(* Strings, as the Go standard library treats them.                        *)

Nil == <<>>

Ref(x) == <<x>>

\* s[lo:hi] of Go: 0-based, half-open.
Slice(s, lo, hi) == SubSeq(s, lo + 1, hi)

\* s[lo:] of Go.
From(s, lo) == SubSeq(s, lo + 1, Len(s))

\* bytealg.IndexByteString: the 0-based index of the first ch in s, or -1.
IndexByteString(s, ch) ==
  IF \E i \in 1..Len(s) : s[i] = ch
    THEN (CHOOSE i \in 1..Len(s) : s[i] = ch /\ \A j \in 1..(i - 1) : s[j] # ch) - 1
    ELSE -1

\* net's last(): the 0-based index of the last ch in s, or -1.
LastIndexByte(s, ch) ==
  IF \E i \in 1..Len(s) : s[i] = ch
    THEN (CHOOSE i \in 1..Len(s) : s[i] = ch /\ \A j \in (i + 1)..Len(s) : s[j] # ch) - 1
    ELSE -1

DecDigits == <<"0", "1", "2", "3", "4", "5", "6", "7", "8", "9">>

HexLower == <<"0", "1", "2", "3", "4", "5", "6", "7", "8", "9", "a", "b", "c", "d", "e", "f">>

HexUpper == <<"0", "1", "2", "3", "4", "5", "6", "7", "8", "9", "A", "B", "C", "D", "E", "F">>

IsDigit(ch) == \E i \in 1..10 : DecDigits[i] = ch

DigitVal(ch) == (CHOOSE i \in 1..10 : DecDigits[i] = ch) - 1

IsHex(ch) == \E i \in 1..16 : HexLower[i] = ch \/ HexUpper[i] = ch

HexVal(ch) == (CHOOSE i \in 1..16 : HexLower[i] = ch \/ HexUpper[i] = ch) - 1

\* unicode.IsSpace: '\t', '\n', '\v', '\f', '\r', ' ', U+0085 (NEL) and U+00A0
\* (NBSP) in Latin-1, and the White_Space characters beyond it.
IsSpace(ch) ==
  ch \in {"\t", "\n", "U+000B", "\f", "\r", " ", "U+0085", "U+00A0",
          "U+1680", "U+2000", "U+2001", "U+2002", "U+2003", "U+2004", "U+2005",
          "U+2006", "U+2007", "U+2008", "U+2009", "U+200A", "U+2028", "U+2029",
          "U+202F", "U+205F", "U+3000"}

-----------------------------------------------------------------------------
(* strconv.Atoi (config.go:117).  Base 10, an optional sign, at least one  *)
(* digit, nothing else.  The inputs of this model stay far below the width *)
(* of a Go int, so the range error of Atoi never arises.                   *)

RECURSIVE AtoiDigits(_, _)
AtoiDigits(s, n) ==
  IF s = <<>> THEN [n |-> n, err |-> FALSE]
  ELSE IF ~IsDigit(Head(s)) THEN [n |-> 0, err |-> TRUE]
  ELSE AtoiDigits(Tail(s), n * 10 + DigitVal(Head(s)))

Atoi(s) ==
  IF s = <<>> THEN [n |-> 0, err |-> TRUE]
  ELSE LET signed == Head(s) \in {"-", "+"}
           body == IF signed THEN Tail(s) ELSE s
           r == AtoiDigits(body, 0)
       IN IF body = <<>> THEN [n |-> 0, err |-> TRUE]
          ELSE IF r.err THEN r
          ELSE [n |-> IF Head(s) = "-" THEN 0 - r.n ELSE r.n, err |-> FALSE]

-----------------------------------------------------------------------------
(* net.SplitHostPort (config.go:107).  err is TRUE for every addrErr the   *)
(* function returns; config.go wraps them all in the same ConfigError.     *)

SplitErr == [host |-> <<>>, port |-> <<>>, err |-> TRUE]

SplitHostPort(hostport) ==
  LET i == LastIndexByte(hostport, ":")
      end == IndexByteString(hostport, "]")
      bracketed == hostport[1] = "["
      host == IF bracketed THEN Slice(hostport, 1, end) ELSE Slice(hostport, 0, i)
      j == IF bracketed THEN 1 ELSE 0
      k == IF bracketed THEN end + 1 ELSE 0
  IN IF i < 0 THEN SplitErr                                  \* missing port
     ELSE IF bracketed /\ end < 0 THEN SplitErr               \* missing ']'
     ELSE IF bracketed /\ end + 1 # i THEN SplitErr           \* missing port, too many colons
     ELSE IF ~bracketed /\ IndexByteString(host, ":") >= 0 THEN SplitErr
     ELSE IF IndexByteString(From(hostport, j), "[") >= 0 THEN SplitErr
     ELSE IF IndexByteString(From(hostport, k), "]") >= 0 THEN SplitErr
     ELSE [host |-> host, port |-> From(hostport, i + 1), err |-> FALSE]

-----------------------------------------------------------------------------
(* net.ParseIP and IP.To4 (config.go:111-114).  An IP is a sequence of     *)
(* bytes: 16 of them for every parsed literal, none for nil.               *)

\* net's dtoi: the decimal number s starts with, the characters it takes, ok.
RECURSIVE dtoiLoop(_, _, _)
dtoiLoop(s, i, n) ==
  IF i < Len(s) /\ IsDigit(s[i + 1])
    THEN LET m == n * 10 + DigitVal(s[i + 1])
         IN IF m >= 16777215 THEN [n |-> 16777215, c |-> i, ok |-> FALSE]
            ELSE dtoiLoop(s, i + 1, m)
    ELSE [n |-> n, c |-> i, ok |-> i > 0]

dtoi(s) == dtoiLoop(s, 0, 0)

\* net's xtoi: the same for a hexadecimal number.
RECURSIVE xtoiLoop(_, _, _)
xtoiLoop(s, i, n) ==
  IF i < Len(s) /\ IsHex(s[i + 1])
    THEN LET m == n * 16 + HexVal(s[i + 1])
         IN IF m >= 16777215 THEN [n |-> 0, c |-> i, ok |-> FALSE]
            ELSE xtoiLoop(s, i + 1, m)
    ELSE [n |-> n, c |-> i, ok |-> i > 0]

xtoi(s) == xtoiLoop(s, 0, 0)

\* net.IPv4(a, b, c, d): the 16-byte IPv4-mapped form.
IPv4(p) == <<0, 0, 0, 0, 0, 0, 0, 0, 0, 0, 255, 255>> \o p

RECURSIVE parseIPv4Loop(_, _, _)
parseIPv4Loop(s, i, p) ==
  IF i = 4 THEN (IF s # <<>> THEN Nil ELSE IPv4(p))
  ELSE IF s = <<>> THEN Nil
  ELSE IF i > 0 /\ Head(s) # "." THEN Nil
  ELSE LET t == IF i > 0 THEN Tail(s) ELSE s
           d == dtoi(t)
       IN IF ~d.ok \/ d.n > 255 THEN Nil
          ELSE IF d.c > 1 /\ t[1] = "0" THEN Nil
          ELSE parseIPv4Loop(From(t, d.c), i + 1, Append(p, d.n))

parseIPv4(s) == parseIPv4Loop(s, 0, <<>>)

Zeros(n) == [x \in 1..n |-> 0]

\* The loop of parseIPv6: ip holds the i bytes parsed so far.
RECURSIVE parseIPv6Loop(_, _, _, _)
parseIPv6Loop(s, i, ellipsis, ip) ==
  IF i >= 16 THEN [ok |-> TRUE, s |-> s, i |-> i, ellipsis |-> ellipsis, ip |-> ip]
  ELSE
    LET x == xtoi(s)
        bad == [ok |-> FALSE, s |-> s, i |-> i, ellipsis |-> ellipsis, ip |-> ip]
    IN IF ~x.ok \/ x.n > 65535 THEN bad
       ELSE IF x.c < Len(s) /\ s[x.c + 1] = "."
         THEN LET ip4 == parseIPv4(s)
              IN IF ellipsis < 0 /\ i # 12 THEN bad
                 ELSE IF i + 4 > 16 THEN bad
                 ELSE IF ip4 = Nil THEN bad
                 ELSE [ok |-> TRUE, s |-> <<>>, i |-> i + 4, ellipsis |-> ellipsis,
                       ip |-> ip \o SubSeq(ip4, 13, 16)]
         ELSE LET ip2 == ip \o <<x.n \div 256, x.n % 256>>
                  i2 == i + 2
                  s2 == From(s, x.c)
                  s3 == Tail(s2)
              IN IF s2 = <<>>
                   THEN [ok |-> TRUE, s |-> s2, i |-> i2, ellipsis |-> ellipsis, ip |-> ip2]
                 ELSE IF s2[1] # ":" \/ Len(s2) = 1 THEN bad
                 ELSE IF s3[1] = ":"
                   THEN IF ellipsis >= 0 THEN bad
                        ELSE IF Tail(s3) = <<>>
                          THEN [ok |-> TRUE, s |-> <<>>, i |-> i2, ellipsis |-> i2, ip |-> ip2]
                        ELSE parseIPv6Loop(Tail(s3), i2, i2, ip2)
                 ELSE parseIPv6Loop(s3, i2, ellipsis, ip2)

parseIPv6(s) ==
  LET lead == Len(s) >= 2 /\ s[1] = ":" /\ s[2] = ":"
      s1 == IF lead THEN From(s, 2) ELSE s
      r == parseIPv6Loop(s1, 0, IF lead THEN 0 ELSE -1, <<>>)
  IN IF lead /\ s1 = <<>> THEN Zeros(16)
     ELSE IF ~r.ok THEN Nil
     ELSE IF r.s # <<>> THEN Nil
     ELSE IF r.i < 16
       THEN IF r.ellipsis < 0 THEN Nil
            ELSE SubSeq(r.ip, 1, r.ellipsis) \o Zeros(16 - r.i)
                   \o SubSeq(r.ip, r.ellipsis + 1, r.i)
     ELSE IF r.ellipsis >= 0 THEN Nil
     ELSE r.ip

\* net.ParseIP: the first '.' or ':' of s picks the parser; neither gives nil.
ParseIP(s) ==
  LET dot == IndexByteString(s, ".")
      colon == IndexByteString(s, ":")
  IN IF dot < 0 /\ colon < 0 THEN Nil
     ELSE IF colon < 0 \/ (dot >= 0 /\ dot < colon) THEN parseIPv4(s)
     ELSE parseIPv6(s)

\* IP.To4: the 4-byte form of an IPv4 address, nil for anything else (a nil IP too).
To4(ip) ==
  IF Len(ip) = 4 THEN ip
  ELSE IF Len(ip) = 16 /\ (\A x \in 1..10 : ip[x] = 0) /\ ip[11] = 255 /\ ip[12] = 255
    THEN SubSeq(ip, 13, 16)
  ELSE Nil

-----------------------------------------------------------------------------
(* The decoded YAML document, as viper holds it: untyped values.           *)

RNil == [t |-> "nil"]

RStr(s) == [t |-> "str", s |-> s]

RInt(n) == [t |-> "int", n |-> n]

RList(elems) == [t |-> "list", elems |-> elems]

RMap(m) == [t |-> "map", m |-> m]

\* viper.Get: the value at a dotted path, nil where the path leads nowhere.
RECURSIVE Get(_, _)
Get(v, path) ==
  IF path = <<>> THEN v
  ELSE IF v.t = "map" /\ Head(path) \in DOMAIN v.m THEN Get(v.m[Head(path)], Tail(path))
  ELSE RNil

\* fmt.Sprintf("server%d", ver)
ServerKey(ver) == IF ver = 6 THEN "server6" ELSE "server4"

\* strconv.Itoa, the string cast.ToString gives an int.
RECURSIVE ItoaDigits(_)
ItoaDigits(n) ==
  IF n < 10 THEN <<DecDigits[n + 1]>>
  ELSE Append(ItoaDigits(n \div 10), DecDigits[(n % 10) + 1])

Itoa(n) == IF n < 0 THEN <<"-">> \o ItoaDigits(0 - n) ELSE ItoaDigits(n)

\* cast.ToString: a string is itself, an int its decimal form, nil and
\* everything that is no scalar the empty string.
CastToString(v) ==
  IF v.t = "str" THEN v.s
  ELSE IF v.t = "int" THEN Itoa(v.n)
  ELSE <<>>

\* viper.GetString
GetString(v, path) == CastToString(Get(v, path))

NilSlice == [isNil |-> TRUE, elems |-> <<>>]

MkSlice(elems) == [isNil |-> FALSE, elems |-> elems]

\* cast.ToSlice: append(nil, v...) for a list, so an empty list comes back
\* as the nil slice; nil for every value that is no list.
ToSlice(v) ==
  IF v.t = "list" /\ v.elems # <<>> THEN MkSlice(v.elems) ELSE NilSlice

\* JSON's insignificant whitespace.
IsJSONSpace(ch) == ch \in {" ", "\t", "\n", "\r"}

RECURSIVE TrimLeft(_)
TrimLeft(s) == IF s # <<>> /\ IsJSONSpace(Head(s)) THEN TrimLeft(Tail(s)) ELSE s

RECURSIVE TrimRight(_)
TrimRight(s) ==
  IF s # <<>> /\ IsJSONSpace(s[Len(s)]) THEN TrimRight(SubSeq(s, 1, Len(s) - 1)) ELSE s

EmptyMap == [k \in {} |-> RNil]

\* cast's jsonStringToObject into a map that starts empty.  The strings of
\* this model hold no double quote, so the only JSON objects among them are
\* empty ones; JSON null sets the map to nil; any other text is an error
\* and leaves the map as it was.
JSONToMap(s) ==
  LET t == TrimRight(TrimLeft(s))
  IN IF t = <<"n", "u", "l", "l">> THEN [isNil |-> TRUE, m |-> EmptyMap]
     ELSE [isNil |-> FALSE, m |-> EmptyMap]

\* cast.ToStringMap: the map itself, a JSON string decoded, and for every
\* other value the empty (non-nil) map that ToStringMapE returns beside its
\* error.
ToStringMap(v) ==
  IF v.t = "map" THEN [isNil |-> FALSE, m |-> v.m]
  ELSE IF v.t = "str" THEN JSONToMap(v.s)
  ELSE [isNil |-> FALSE, m |-> EmptyMap]

\* strings.Fields: the maximal runs of non-space characters, in order.
RECURSIVE FieldsLoop(_, _, _)
FieldsLoop(s, cur, acc) ==
  IF s = <<>> THEN (IF cur = <<>> THEN acc ELSE Append(acc, cur))
  ELSE IF IsSpace(Head(s))
    THEN FieldsLoop(Tail(s), <<>>, IF cur = <<>> THEN acc ELSE Append(acc, cur))
  ELSE FieldsLoop(Tail(s), Append(cur, Head(s)), acc)

Fields(s) == FieldsLoop(s, <<>>, <<>>)

-----------------------------------------------------------------------------
(* config.go                                                               *)

\* ConfigErrorFromString, by the message of each call site.
ConfigError(kind, ver, idx) == Ref([kind |-> kind, ver |-> ver, idx |-> idx])

PluginConfig(name, args) == [Name |-> name, Args |-> args]

\* parsePlugins with the new entry put in front of the others.
RECURSIVE parsePluginsLoop_Prepend(_, _, _)
parsePluginsLoop_Prepend(pluginList, idx, plugins) ==
  IF idx >= Len(pluginList) THEN [plugins |-> MkSlice(plugins), err |-> Nil]
  ELSE
    LET conf == ToStringMap(pluginList[idx + 1])
        k == CHOOSE x \in DOMAIN conf.m : TRUE
    IN IF conf.isNil
         THEN [plugins |-> NilSlice, err |-> ConfigError("InvalidPluginEntry", 6, idx)]
       ELSE IF Cardinality(DOMAIN conf.m) # 1
         THEN [plugins |-> NilSlice, err |-> ConfigError("MalformedPluginEntry", 6, -1)]
       ELSE parsePluginsLoop_Prepend(pluginList, idx + 1,
              <<PluginConfig(k, Fields(CastToString(conf.m[k])))>> \o plugins)

\* The loop of parsePlugins over pluginList[idx:], plugins holding the
\* entries parsed so far.
RECURSIVE parsePluginsLoop(_, _, _)
parsePluginsLoop(pluginList, idx, plugins) ==
  IF idx >= Len(pluginList) THEN [plugins |-> MkSlice(plugins), err |-> Nil]
  ELSE
    LET val == pluginList[idx + 1]
        conf == ToStringMap(val)
        k == CHOOSE x \in DOMAIN conf.m : TRUE
        name == k
        args == Fields(CastToString(conf.m[k]))
    IN IF conf.isNil
         THEN [plugins |-> NilSlice, err |-> ConfigError("InvalidPluginEntry", 6, idx)]
       ELSE IF Cardinality(DOMAIN conf.m) # 1
         THEN [plugins |-> NilSlice, err |-> ConfigError("MalformedPluginEntry", 6, -1)]
       ELSE parsePluginsLoop(pluginList, idx + 1, Append(plugins, PluginConfig(name, args)))

parsePlugins(pluginList) == parsePluginsLoop(pluginList, 0, <<>>)

UDPAddr(ip, port) == [IP |-> ip, Port |-> port]

\* Lines 111-125 of getListenAddress, given the split listen directive.
getListenAddressOf(ver, v6, ip, port) ==
  IF v6 /\ To4(ip) # Nil
    THEN [addr |-> Nil, err |-> ConfigError("AddressFamilyMismatch", ver, -1)]
  ELSE IF ~v6 /\ To4(ip) = Nil
    THEN [addr |-> Nil, err |-> ConfigError("AddressFamilyMismatch", ver, -1)]
  ELSE IF port.err
    THEN [addr |-> Nil, err |-> ConfigError("InvalidPort", ver, -1)]
  ELSE [addr |-> Ref(UDPAddr(ip, port.n)), err |-> Nil]

\* Lines 104-110 of getListenAddress, given the listen directive.
getListenAddressAt(ver, v6, addr, hp) ==
  IF addr = <<>>
    THEN [addr |-> Nil, err |-> ConfigError("MissingListenDirective", ver, -1)]
  ELSE IF hp.err
    THEN [addr |-> Nil, err |-> ConfigError("InvalidListenSyntax", ver, -1)]
  ELSE getListenAddressOf(ver, v6, ParseIP(hp.host), Atoi(hp.port))

\* getListenAddress with the two absences swapped: a missing section is the
\* error, a missing listen directive is "not configured".
getListenAddressIn_Swapped(d, ver, v6, addr) ==
  IF Get(d, <<ServerKey(ver)>>).t = "nil"
    THEN [addr |-> Nil, err |-> ConfigError("MissingListenDirective", ver, -1)]
  ELSE IF addr = <<>> THEN [addr |-> Nil, err |-> Nil]
  ELSE getListenAddressAt(ver, v6, addr, SplitHostPort(addr))

\* Lines 98-103 of getListenAddress, given the listen directive.
getListenAddressIn(d, ver, v6, addr) ==
  IF Get(d, <<ServerKey(ver)>>).t = "nil" THEN [addr |-> Nil, err |-> Nil]
  ELSE getListenAddressAt(ver, v6, addr, SplitHostPort(addr))

getListenAddressVer(d, ver, v6) ==
  getListenAddressIn(d, ver, v6, GetString(d, <<ServerKey(ver), "listen">>))

getListenAddress(d, v6) == getListenAddressVer(d, IF ~v6 THEN 4 ELSE 6, v6)

\* getPlugins reads the path "server6.plugins" whatever v6 is.
getPlugins(d, v6) ==
  LET pluginList == ToSlice(Get(d, <<"server6", "plugins">>))
  IN IF pluginList.isNil
       THEN [plugins |-> NilSlice, err |-> ConfigError("InvalidPluginsSection", 6, -1)]
     ELSE parsePlugins(pluginList.elems)

ServerConfig(listener, plugins) == [Listener |-> listener, Plugins |-> plugins]

\* New(): a Config with both servers nil.
New == [Server6 |-> Nil, Server4 |-> Nil]

\* Lines 162-171 of parseConfig, given the listener and what getPlugins returned.
parseConfigWith(cfg, v6, listenAddr, pl) ==
  IF pl.err # Nil THEN [c |-> cfg, err |-> pl.err]
  ELSE IF v6
    THEN [c |-> [cfg EXCEPT !.Server6 = Ref(ServerConfig(listenAddr, pl.plugins))], err |-> Nil]
  ELSE [c |-> [cfg EXCEPT !.Server4 = Ref(ServerConfig(listenAddr, pl.plugins))], err |-> Nil]

\* Lines 146-161 of parseConfig, given what getListenAddress returned.
parseConfigAt(cfg, d, v6, la) ==
  IF la.err # Nil THEN [c |-> cfg, err |-> la.err]
  ELSE IF la.addr = Nil THEN [c |-> cfg, err |-> Nil]
  ELSE parseConfigWith(cfg, v6, la.addr, getPlugins(d, v6))

\* parseConfig on the Config cfg: the Config it leaves and the error it returns.
parseConfig(cfg, d, v6) == parseConfigAt(cfg, d, v6, getListenAddress(d, v6))

-----------------------------------------------------------------------------
(* The inputs the model draws from.                                        *)

\* The longest plugins list and the longest argument string explored.
MaxPlugins == 2

MaxArgLen == 3

V4Listen == <<"1", "0", ".", "0", ".", "0", ".", "1", ":", "6", "7">>

V6Listen == <<"[", ":", ":", "1", "]", ":", "5", "4", "7">>

BadListen == <<"b", "a", "d", "-", "a", "d", "d", "r", "e", "s", "s", ":", "9", "9">>

Hosts ==
  { <<"1", "0", ".", "0", ".", "0", ".", "1">>,
    <<"[", ":", ":", "1", "]">>,
    <<"[", "2", "0", "0", "1", ":", "d", "b", "8", ":", ":", "1", "]">>,
    <<"b", "a", "d", "-", "a", "d", "d", "r", "e", "s", "s">>,
    <<"[", ":", ":", "f", "f", "f", "f", ":", "1", "0", ".", "0", ".", "0", ".", "1", "]">>,
    <<>>,
    <<"[", "1", "0", ".", "0", ".", "0", ".", "1", "]">>,
    <<":", ":", "1">>,
    <<"2", "5", "6", ".", "0", ".", "0", ".", "1">> }

Ports ==
  { <<"6", "7">>,
    <<"5", "4", "7">>,
    <<"-", "1">>,
    <<"7", "0", "0", "0", "0">>,
    <<"n", "o", "t", "a", "p", "o", "r", "t">>,
    <<>>,
    <<"6", "5", "5", "3", "5">>,
    <<"6", "5", "5", "3", "6">>,
    <<"0">> }

ListenInputs ==
  {h \o <<":">> \o p : h \in Hosts, p \in Ports} \cup
  { <<"1", "0", ".", "0", ".", "0", ".", "1">>,
    <<"[", ":", ":", "1", "]">>,
    <<"[", ":", ":", "1", ":", "5", "4", "7">>,
    <<"2", "0", "0", "1", ":", "d", "b", "8", ":", ":", "1", ":", "5", "4", "7">> }

ArgChars == {"a", " "}

ArgStrings == UNION {[1..n -> ArgChars] : n \in 0..MaxArgLen}

\* Separators other than the space: a tab, a vertical tab, NEL, NBSP, the
\* ideographic space; and the zero-width space U+200B, which is no space
\* to unicode.IsSpace.
OtherSeparators == {"\t", "U+000B", "U+0085", "U+00A0", "U+3000", "U+200B"}

\* The value of a plugin entry: an argument string, a number as YAML decodes
\* `lease_time: 3600`, or nothing at all.
ArgValues ==
  {RStr(s) : s \in ArgStrings} \cup {RStr(<<"a", ch, "a">>) : ch \in OtherSeparators} \cup
  {RInt(3600), RNil}

Names == {"dns", "server_id"}

Entry(name, v) == RMap([k \in {name} |-> v])

GoodEntries == {Entry(name, v) : name \in Names, v \in ArgValues}

TwoKeys == RMap([k \in Names |-> RStr(<<"a">>)])

\* Entries that are no single-key mapping: a mapping with no key or two, a
\* bare string, the string "null", a number, a null element.
BadEntries ==
  {RMap(EmptyMap), TwoKeys, RStr(<<"a">>), RStr(<<"n", "u", "l", "l">>), RInt(5), RNil}

SeqsUpTo(S, n) == UNION {[1..k -> S] : k \in 0..n}

PluginLists == SeqsUpTo(GoodEntries \cup BadEntries, MaxPlugins)

\* A section of the document: a mapping with the keys that are given.
Section(listen, plugins) ==
  RMap([k \in (IF listen.t = "absent" THEN {} ELSE {"listen"}) \cup
               (IF plugins.t = "absent" THEN {} ELSE {"plugins"}) |->
          IF k = "listen" THEN listen ELSE plugins])

Absent == [t |-> "absent"]

\* A document: a mapping with the sections that are given.
Document(s6, s4) ==
  RMap([k \in (IF s6.t = "absent" THEN {} ELSE {"server6"}) \cup
               (IF s4.t = "absent" THEN {} ELSE {"server4"}) |->
          IF k = "server6" THEN s6 ELSE s4])

DnsEntry == Entry("dns", RStr(<<"a", " ", "a">>))

IdEntry == Entry("server_id", RNil)

\* Plugins values of the single-function calls: none, an empty list, no list, lists
\* of well-formed entries, a list with a malformed entry.
UnitPlugins ==
  {Absent, RList(<<>>), RStr(<<"a">>), RList(<<DnsEntry>>), RList(<<DnsEntry, IdEntry>>),
   RList(<<IdEntry, DnsEntry>>), RList(<<TwoKeys>>)}

UnitSections ==
  {Absent, RNil, RInt(5), Section(Absent, Absent), Section(RNil, RList(<<DnsEntry>>)),
   Section(RStr(<<>>), RList(<<DnsEntry>>)), Section(RInt(67), RList(<<DnsEntry>>))} \cup
  {Section(RStr(l), RList(<<DnsEntry>>)) : l \in ListenInputs} \cup
  {Section(RStr(l), p) : l \in {V4Listen, V6Listen}, p \in UnitPlugins}

UnitDocs == {Document(s6, s4) : s6 \in UnitSections, s4 \in UnitSections}

\* Plugins values of the Load runs.
LoadPlugins ==
  {Absent, RStr(<<"a">>)} \cup {RList(l) : l \in SeqsUpTo({DnsEntry, TwoKeys}, MaxPlugins)}

LoadSections ==
  {Absent, RInt(5)} \cup
  {Section(l, p) : l \in {Absent, RStr(V4Listen), RStr(V6Listen), RStr(BadListen)},
                   p \in LoadPlugins}

LoadDocs == {Document(s6, s4) : s6 \in LoadSections, s4 \in LoadSections}

-----------------------------------------------------------------------------
(* Load, step by step.  pc is the position in Load; c is the Config under  *)
(* construction; ret is what Load returns; calls lists the versions        *)
(* parseConfig has been called for.                                        *)

NoReturn == [cfg |-> Nil, err |-> Nil]

Init ==
  /\ doc \in LoadDocs
  /\ readErr \in BOOLEAN
  /\ pc = "start"
  /\ c = New
  /\ ret = NoReturn
  /\ calls = <<>>
  /\ fn = "none"
  /\ arg = FALSE
  /\ out = Nil

\* c.v.ReadInConfig(): an unreadable configuration ends Load with its error.
ReadInConfig ==
  /\ pc = "start"
  /\ IF readErr
       THEN /\ pc' = "done"
            /\ ret' = [cfg |-> Nil, err |-> ConfigError("ReadError", 0, -1)]
       ELSE /\ pc' = "parse6"
            /\ UNCHANGED ret
  /\ UNCHANGED <<doc, readErr, c, calls, fn, arg, out>>

\* Load without the `return` after a failed parseConfig: the error is kept
\* and Load goes on to the next step.
LoadParse_NoReturn(v6, from, to, r) ==
  /\ pc = from
  /\ calls' = Append(calls, IF v6 THEN 6 ELSE 4)
  /\ pc' = to
  /\ IF r.err # Nil
       THEN /\ ret' = [cfg |-> Nil, err |-> r.err]
            /\ UNCHANGED c
       ELSE /\ c' = r.c
            /\ UNCHANGED ret
  /\ UNCHANGED <<doc, readErr, fn, arg, out>>

\* c.parseConfig(v6) and the `return nil, err` that follows a failure.
LoadParse(v6, from, to, r) ==
  /\ pc = from
  /\ calls' = Append(calls, IF v6 THEN 6 ELSE 4)
  /\ IF r.err # Nil
       THEN /\ pc' = "done"
            /\ ret' = [cfg |-> Nil, err |-> r.err]
            /\ UNCHANGED c
       ELSE /\ pc' = to
            /\ c' = r.c
            /\ UNCHANGED ret
  /\ UNCHANGED <<doc, readErr, fn, arg, out>>

LoadParse6 == LoadParse(TRUE, "parse6", "parse4", parseConfig(c, doc, TRUE))

LoadParse4 == LoadParse(FALSE, "parse4", "validate", parseConfig(c, doc, FALSE))

\* Line 60 with one comparison turned around.
NoServer_Neq(cfg) == cfg.Server6 = Nil /\ cfg.Server4 # Nil

\* c.Server6 == nil && c.Server4 == nil
NoServer(cfg) == cfg.Server6 = Nil /\ cfg.Server4 = Nil

\* The last test of Load (both servers nil) and its return.
LoadValidate ==
  /\ pc = "validate"
  /\ pc' = "done"
  /\ ret' = IF NoServer(c)
              THEN [cfg |-> Nil, err |-> ConfigError("NoProtocolConfigured", 0, -1)]
              ELSE [cfg |-> Ref(c), err |-> Nil]
  /\ UNCHANGED <<doc, readErr, c, calls, fn, arg, out>>

Next == ReadInConfig \/ LoadParse6 \/ LoadParse4 \/ LoadValidate

Spec == Init /\ [][Next]_vars

-----------------------------------------------------------------------------
(* The functions of config.go called one at a time: arg is the v6          *)
(* argument, out the result, fn the function that produced it.             *)

InitUnit ==
  /\ doc \in UnitDocs
  /\ readErr = FALSE
  /\ pc = "start"
  /\ c = New
  /\ ret = NoReturn
  /\ calls = <<>>
  /\ fn = "none"
  /\ arg \in BOOLEAN
  /\ out = Nil

Call(name, result) ==
  /\ fn = "none"
  /\ fn' = name
  /\ out' = result
  /\ UNCHANGED <<doc, readErr, pc, c, ret, calls, arg>>

CallGetListenAddress == Call("getListenAddress", getListenAddress(doc, arg))

CallGetPlugins == Call("getPlugins", getPlugins(doc, arg))

CallParseConfig == Call("parseConfig", parseConfig(c, doc, arg))

NextUnit == CallGetListenAddress \/ CallGetPlugins \/ CallParseConfig

SpecUnit == InitUnit /\ [][NextUnit]_vars

-----------------------------------------------------------------------------
(* parsePlugins called on a list: arg is the list, out the result.         *)

InitPlugins ==
  /\ doc = RMap(EmptyMap)
  /\ readErr = FALSE
  /\ pc = "start"
  /\ c = New
  /\ ret = NoReturn
  /\ calls = <<>>
  /\ fn = "none"
  /\ arg \in PluginLists
  /\ out = Nil

CallParsePlugins == Call("parsePlugins", parsePlugins(arg))

NextPlugins == CallParsePlugins

SpecPlugins == InitPlugins /\ [][NextPlugins]_vars

-----------------------------------------------------------------------------
(* What the claims speak of, stated on the document and the results.       *)

SectionOf(ver) == Get(doc, <<ServerKey(ver)>>)

ListenOf(ver) == Get(doc, <<ServerKey(ver), "listen">>)

PluginsOf(ver) == Get(doc, <<ServerKey(ver), "plugins">>)

HasListen(ver, l) == ListenOf(ver).t = "str" /\ ListenOf(ver).s = l

\* A mapping with exactly one key.
WellFormed(e) == e.t = "map" /\ Cardinality(DOMAIN e.m) = 1

KeyOf(e) == CHOOSE k \in DOMAIN e.m : TRUE

WellFormedList(v) == v.t = "list" /\ \A k \in 1..Len(v.elems) : WellFormed(v.elems[k])

ErrKind(e) == IF e = Nil THEN "nil" ELSE e[1].kind

\* The string representation of an argument value of ArgValues.
TextOf(v) ==
  IF v.t = "str" THEN v.s
  ELSE IF v.t = "int" /\ v.n = 3600 THEN <<"3", "6", "0", "0">>
  ELSE <<>>

\* The whitespace characters among those of the argument values.
White == {" ", "\t", "U+000B", "U+0085", "U+00A0", "U+3000"}

\* The positions where a run of non-whitespace characters of s starts, and
\* the position where the run that starts at i ends.
RunStarts(s) == {i \in 1..Len(s) : s[i] \notin White /\ (i = 1 \/ s[i - 1] \in White)}

RunEnd(s, i) ==
  CHOOSE j \in i..Len(s) :
    (\A x \in i..j : s[x] \notin White) /\ (j = Len(s) \/ s[j + 1] \in White)

\* args are the runs of non-space characters of s, in the order of s.
IsSplitOf(args, s) ==
  /\ Len(args) = Cardinality(RunStarts(s))
  /\ \A k \in 1..Len(args) :
       \E i \in RunStarts(s) :
         /\ Cardinality({j \in RunStarts(s) : j < i}) = k - 1
         /\ args[k] = SubSeq(s, i, RunEnd(s, i))

IPv4Mapped(ip) ==
  Len(ip) = 16 /\ (\A x \in 1..10 : ip[x] = 0) /\ ip[11] = 255 /\ ip[12] = 255

-----------------------------------------------------------------------------
(* The claims.                                                             *)

\* C1: Load never returns a Config with Server6 and Server4 both absent: a
\* readable document that defines neither section ends Load with
\* NoProtocolConfigured and no Config, and every Config that Load returns
\* has at least one of the two servers.
C1_AtLeastOneServer ==
  pc = "done" =>
    /\ ret.cfg # Nil => ret.cfg[1].Server6 # Nil \/ ret.cfg[1].Server4 # Nil
    /\ ret.err = Nil => ret.cfg # Nil
    /\ (~readErr /\ SectionOf(6).t = "nil" /\ SectionOf(4).t = "nil") =>
         ret = [cfg |-> Nil, err |-> ConfigError("NoProtocolConfigured", 0, -1)]

C1_Witness ==
  /\ pc = "done"
  /\ ~readErr
  /\ SectionOf(6).t = "nil"
  /\ SectionOf(4).t = "nil"
  /\ ErrKind(ret.err) = "NoProtocolConfigured"

\* C2: a readable document with only a v6 section, a valid listener there
\* and a plugins value that is missing, an empty list or a list of
\* well-formed entries loads with Server6 present, Server4 absent and no
\* error.
C2_V6OnlyLoads ==
  ( /\ pc = "done"
    /\ ~readErr
    /\ SectionOf(4).t = "nil"
    /\ HasListen(6, V6Listen)
    /\ (PluginsOf(6).t = "nil" \/ WellFormedList(PluginsOf(6))) )
  => /\ ret.err = Nil
     /\ ret.cfg # Nil
     /\ ret.cfg[1].Server6 # Nil
     /\ ret.cfg[1].Server4 = Nil

\* C3: the v4 build reads the v4 section's plugins: a readable v4-only
\* document with a valid listener and a non-empty list of well-formed v4
\* plugins loads, and Server4 holds one plugin per entry of that list, named
\* as the entries are, in their order.
C3_V4OwnPlugins ==
  ( /\ pc = "done"
    /\ ~readErr
    /\ SectionOf(6).t = "nil"
    /\ HasListen(4, V4Listen)
    /\ WellFormedList(PluginsOf(4))
    /\ PluginsOf(4).elems # <<>> )
  => /\ ret.err = Nil
     /\ ret.cfg # Nil
     /\ ret.cfg[1].Server4 # Nil
     /\ LET got == ret.cfg[1].Server4[1].Plugins.elems
            want == PluginsOf(4).elems
        IN /\ Len(got) = Len(want)
           /\ \A k \in 1..Len(want) : got[k].Name = KeyOf(want[k])

\* C4: in the v6 build, once the listener has resolved, a missing plugins
\* value gives a ServerConfig with an empty Plugins sequence and no error,
\* and InvalidPluginsSection is returned only for a plugins value that is
\* there and is no list.
C4_AbsentPluginsIsEmpty ==
  (fn = "parseConfig" /\ arg /\ getListenAddress(doc, TRUE).addr # Nil) =>
    /\ PluginsOf(6).t = "nil" =>
         /\ out.err = Nil
         /\ out.c.Server6 # Nil
         /\ out.c.Server6[1].Plugins.elems = <<>>
    /\ ErrKind(out.err) = "InvalidPluginsSection" => PluginsOf(6).t \notin {"nil", "list"}

\* C5: an address that getListenAddress returns carries a parsed IP literal
\* of the family asked for: 16 bytes that are no IPv4-mapped address for
\* v6, an IPv4 address for v4.
C5_ListenerIPOfFamily ==
  (fn = "getListenAddress" /\ out.addr # Nil) =>
    LET ip == out.addr[1].IP
    IN IF arg THEN Len(ip) = 16 /\ ~IPv4Mapped(ip)
       ELSE Len(ip) = 4 \/ IPv4Mapped(ip)

\* C6: an address that getListenAddress returns has a port in 0..65535.
C6_PortInRange ==
  (fn = "getListenAddress" /\ out.addr # Nil) => out.addr[1].Port \in 0..65535

\* C7: parsePlugins fails at the first entry that is no single-key mapping:
\* with InvalidPluginEntry and the entry's index when the entry is no
\* mapping at all, with MalformedPluginEntry when it is a mapping with no
\* key or several; with no such entry it succeeds.
C7_EntryClassification ==
  fn = "parsePlugins" =>
    LET bad == {i \in 1..Len(arg) : ~WellFormed(arg[i])}
        first == CHOOSE i \in bad : \A j \in bad : i <= j
    IN IF bad = {} THEN out.err = Nil
       ELSE IF arg[first].t # "map"
         THEN ErrKind(out.err) = "InvalidPluginEntry" /\ out.err[1].idx = first - 1
       ELSE ErrKind(out.err) = "MalformedPluginEntry"

\* C8: on a list of single-key mappings parsePlugins returns one
\* PluginConfig per entry, in the order of the list: the k-th has the key of
\* the k-th entry as Name and the whitespace-separated pieces of its value
\* as Args.
C8_OrderPreserved ==
  (fn = "parsePlugins" /\ \A k \in 1..Len(arg) : WellFormed(arg[k])) =>
    /\ out.err = Nil
    /\ ~out.plugins.isNil
    /\ Len(out.plugins.elems) = Len(arg)
    /\ \A k \in 1..Len(arg) :
         /\ out.plugins.elems[k].Name = KeyOf(arg[k])
         /\ IsSplitOf(out.plugins.elems[k].Args, TextOf(arg[k].m[KeyOf(arg[k])]))

C8_Witness ==
  /\ fn = "parsePlugins"
  /\ Len(arg) = 2
  /\ WellFormed(arg[1])
  /\ WellFormed(arg[2])
  /\ KeyOf(arg[1]) # KeyOf(arg[2])
  /\ out.err = Nil
  /\ Len(out.plugins.elems[1].Args) = 2
  /\ Len(out.plugins.elems[2].Args) = 0

\* C9: Load calls the v6 build, then the v4 build, and returns at the first
\* failure: after a failed v6 build the v4 build is not called, and a failed
\* build makes Load return that error and no Config, whatever the other
\* section holds.
C9_FailFast ==
  /\ calls \in {<<>>, <<6>>, <<6, 4>>}
  /\ pc = "done" => (ret.err = Nil) # (ret.cfg = Nil)
  /\ (pc = "done" /\ ~readErr) =>
       LET r6 == parseConfig(New, doc, TRUE)
           r4 == parseConfig(r6.c, doc, FALSE)
       IN IF r6.err # Nil
            THEN calls = <<6>> /\ ret = [cfg |-> Nil, err |-> r6.err]
            ELSE /\ calls = <<6, 4>>
                 /\ r4.err # Nil => ret = [cfg |-> Nil, err |-> r4.err]

C9_Witness ==
  /\ pc = "done"
  /\ ~readErr
  /\ calls = <<6>>
  /\ ErrKind(ret.err) = "MissingListenDirective"
  /\ ret.cfg = Nil
  /\ HasListen(4, V4Listen)

\* C10: getListenAddress returns no address and no error exactly when the
\* section has no value, and the builder then leaves the protocol's
\* ServerConfig absent; for a section that is there with a listen directive
\* that is missing or empty it fails with MissingListenDirective.
C10_AbsencePerField ==
  LET ver == IF arg THEN 6 ELSE 4
      noListen == ListenOf(ver).t = "nil" \/ (ListenOf(ver).t = "str" /\ ListenOf(ver).s = <<>>)
  IN /\ fn = "getListenAddress" =>
          /\ SectionOf(ver).t = "nil" <=> (out.addr = Nil /\ out.err = Nil)
          /\ (SectionOf(ver).t # "nil" /\ noListen) =>
               out = [addr |-> Nil, err |-> ConfigError("MissingListenDirective", ver, -1)]
     /\ (fn = "parseConfig" /\ SectionOf(ver).t = "nil") =>
          /\ out.err = Nil
          /\ out.c.Server6 = Nil
          /\ out.c.Server4 = Nil

C10_Witness ==
  /\ fn = "getListenAddress"
  /\ ~arg
  /\ SectionOf(4).t = "map"
  /\ ListenOf(4).t = "nil"
  /\ SectionOf(6).t = "nil"
  /\ ErrKind(out.err) = "MissingListenDirective"

====
